---------------------------- MODULE Spec2Model ----------------------------
(***************************************************************************)
(* Model of the condition-to-alert decision engine of app.py: the three    *)
(* upstream fetches, the tank geometry, the three rule trees, the alert    *)
(* sink and the entry points that drive them.                              *)
(*                                                                         *)
(* Units.  Python floats are modelled as scaled integers:                  *)
(*   rain (forecast "3h", weather "rainfall")      tenths of a millimetre  *)
(*   weather payload temp / humidity / wind        tenths of a unit        *)
(*   weather payload rain "1h"                     hundredths of a mm      *)
(*   soil values (soil_pct, temp_c, humidity_pct)  tenths of a unit        *)
(*   ultrasonic_cm, height_cm                      hundredths of a cm      *)
(* A JSON object is a function whose DOMAIN is the set of keys it reports. *)
(***************************************************************************)
EXTENDS Integers, Sequences, FiniteSets, TLC

VARIABLES
    FARMER_ALERTS,   \* the in-memory feed (app.py:82)
    alert_history,   \* rows of table alert_history written by this process
    session,         \* the Flask session: the set of keys it holds
    now,             \* the wall clock read by now_utc_iso()
    frame,           \* per thread: the entry point it runs and its locals
    call             \* one application of a fetch or a rule tree: input, output

vars == <<FARMER_ALERTS, alert_history, session, now, frame, call>>

-----------------------------------------------------------------------------
(* Bounds of the model *)

MaxForecast == 3     \* forecast points of the current day
MaxU == 960          \* largest ultrasonic reading, hundredths of a cm
NegU == 3            \* most negative ultrasonic reading, hundredths of a cm

-----------------------------------------------------------------------------
(* Arithmetic helpers *)

Max(a, b) == IF a >= b THEN a ELSE b
Min(a, b) == IF a <= b THEN a ELSE b

\* Python round(): nearest integer of n/d, ties to the even neighbour.
RoundDiv(n, d) ==
    LET q == n \div d
        r == n % d
    IN  IF 2 * r < d THEN q
        ELSE IF 2 * r > d THEN q + 1
        ELSE IF q % 2 = 0 THEN q ELSE q + 1

\* Python int(x) of a float given in tenths: truncation towards zero.
IntOfTenths(x) == IF x >= 0 THEN x \div 10 ELSE -((-x) \div 10)

RECURSIVE SumSeq(_)
SumSeq(s) == IF s = <<>> THEN 0 ELSE Head(s) + SumSeq(Tail(s))

RECURSIVE MaxSeq(_)
\* max(..., default=0)
MaxSeq(s) ==
    IF s = <<>> THEN 0
    ELSE IF Len(s) = 1 THEN s[1]
    ELSE Max(Head(s), MaxSeq(Tail(s)))

Restrict(f, K) == [k \in K |-> f[k]]

-----------------------------------------------------------------------------
(* Program constants *)

TANK_H1_CM == 950         \* 9.5 cm
BaseAreaNum == 103499     \* PI * R * R = (22/7) * 4.85^2 = 103499/1400 cm^2
BaseAreaDen == 1400

\* The fixed WeatherSnapshot substituted when the provider cannot be read.
DefaultWeather == [temperature |-> 22, humidity |-> 70, rainfall |-> 0, wind_speed |-> 5]

None == [type |-> "None"]
NoSoil == [present |-> FALSE]
Raised == [ok |-> FALSE]

-----------------------------------------------------------------------------
(* What the collaborators can answer *)

\* An HTTP exchange either fails (transport error, timeout, HTTP error, body
\* that is not the expected JSON) or yields a JSON object.
Failed == [ok |-> FALSE]
Answer(j) == [ok |-> TRUE, json |-> j]

\* Current weather payload of the provider.
WeatherPayloads ==
    { [temp |-> t, humidity |-> h, rain1h |-> r, wind |-> 52] :
        t \in {245, 255}, h \in {585, 595}, r \in {0, 4, 12, 16, 104, 106} }

\* Forecast payload: the "3h" rain of today's points, in order.
RainValues == {0, 1, 5, 6, 20, 21}
ForecastPayloads == UNION { [1..n -> RainValues] : n \in 0..MaxForecast }

\* ESP32 /data payload: any subset of the keys may be reported.
SoilKeys == {"soil_pct", "temp_c", "humidity_pct"}
SoilPayloads ==
    { Restrict([soil_pct |-> m, temp_c |-> 221, humidity_pct |-> 554], K) :
        m \in {0, 396, 400, 650}, K \in SUBSET SoilKeys }
UltrasonicValues == (0 - NegU)..MaxU
TankPayloads ==
    { [ultrasonic_cm |-> u] : u \in UltrasonicValues } \cup { [soil_pct |-> 650] }

-----------------------------------------------------------------------------
(* The three fetches of the normalizer and the tank geometry *)

\* app.py:164-178
get_weather_data(resp) ==
    IF resp.ok
    THEN [temperature |-> RoundDiv(resp.json.temp, 10),
          humidity    |-> RoundDiv(resp.json.humidity, 10),
          rainfall    |-> RoundDiv(resp.json.rain1h, 10),
          wind_speed  |-> RoundDiv(resp.json.wind, 10)]
    ELSE DefaultWeather

\* app.py:181-203
get_weather_forecast(resp) ==
    IF resp.ok THEN resp.json ELSE <<>>

\* j.get(key, 0) or 0
GetOrZero(j, key) == IF key \in DOMAIN j THEN j[key] ELSE 0

\* app.py:205-221
get_soil_data(resp) ==
    IF resp.ok
    THEN [present     |-> TRUE,
          moisture    |-> GetOrZero(resp.json, "soil_pct"),
          temperature |-> GetOrZero(resp.json, "temp_c"),
          humidity    |-> GetOrZero(resp.json, "humidity_pct")]
    ELSE NoSoil

WaterHeight_NoFloor(u) == Min(TANK_H1_CM, TANK_H1_CM - u)

\* H = max(0.0, min(H1, H1 - u)), app.py:246
WaterHeight(u) == Max(0, Min(TANK_H1_CM, TANK_H1_CM - u))

PercentOf_Truncated(H) == (H * 100) \div TANK_H1_CM

\* int(round((H / H1) * 100.0)), app.py:250, 257
PercentOf(H) == RoundDiv(H * 100, TANK_H1_CM)

\* app.py:230-258; Raised when the read fails or float(None) raises.
get_tank_snapshot(resp) ==
    IF resp.ok /\ "ultrasonic_cm" \in DOMAIN resp.json
    THEN LET u == resp.json.ultrasonic_cm
             H == WaterHeight(u)
         IN  [ok            |-> TRUE,
              ultrasonic_cm |-> u,
              height_cm     |-> H,
              volume_cm3    |-> RoundDiv(BaseAreaNum * H, BaseAreaDen * 100),
              capacity_cm3  |-> RoundDiv(BaseAreaNum * TANK_H1_CM, BaseAreaDen * 100),
              percent       |-> PercentOf(H)]
    ELSE Raised

-----------------------------------------------------------------------------
(* The rule trees.  An alert is a record; its message is the text together  *)
(* with the values the format string embeds.                                *)

\* app.py:308
RainHeavy(total_rain, max_rain) == total_rain > 50 \/ max_rain > 20

RainMedium_NoMax(total_rain, max_rain) == total_rain > 10

\* app.py:322
RainMedium(total_rain, max_rain) == total_rain > 10 \/ max_rain > 5

\* app.py:290-372
check_rain_alert(fc_resp, wx_resp, soil_resp, ts) ==
    LET forecast == get_weather_forecast(fc_resp) IN
    IF forecast = <<>> THEN None
    ELSE
    LET total_rain == SumSeq(forecast)
        max_rain == MaxSeq(forecast)
        current_weather == get_weather_data(wx_resp)
        soil == get_soil_data(soil_resp)
        t == current_weather.temperature
        h == current_weather.humidity
        r == current_weather.rainfall
        w == current_weather.wind_speed
    IN  IF RainHeavy(total_rain, max_rain)
        THEN [type |-> "rain_alert", title |-> "Heavy Rain Alert",
              message |-> [text |-> "Warning! Heavy rainfall expected today.",
                           t |-> t, h |-> h, r |-> r, w |-> w],
              severity |-> "high", category |-> "weather", timestamp |-> ts,
              recommendation |-> "Cover young plants; delay irrigation."]
        ELSE IF RainMedium(total_rain, max_rain)
        THEN [type |-> "rain_alert", title |-> "Rain Expected Today",
              message |-> [text |-> "Rain expected.",
                           t |-> t, h |-> h, r |-> r, w |-> w],
              severity |-> "medium", category |-> "weather", timestamp |-> ts,
              recommendation |-> "Skip irrigation today; recheck tomorrow."]
        ELSE IF total_rain > 1
        THEN [type |-> "rain_alert", title |-> "Uncertain Weather",
              message |-> IF ~soil.present
                          THEN [text |-> "Light rain chance."]
                          ELSE [text |-> "Light rain chance. Soil",
                                m |-> IntOfTenths(soil.moisture)],
              severity |-> "low", category |-> "weather", timestamp |-> ts,
              recommendation |-> "Check soil before irrigating."]
        ELSE IF soil.present /\ soil.moisture < 400
        THEN [type |-> "irrigation_alert", title |-> "No Rain, Irrigation Needed",
              message |-> [text |-> "No rain expected. Soil",
                           m |-> IntOfTenths(soil.moisture)],
              severity |-> "medium", category |-> "irrigation", timestamp |-> ts,
              recommendation |-> "Follow normal irrigation schedule."]
        ELSE [type |-> "weather_update", title |-> "Good Weather Day",
              message |-> IF ~soil.present
                          THEN [text |-> "Clear weather."]
                          ELSE [text |-> "Clear weather; soil moisture adequate."],
              severity |-> "low", category |-> "weather", timestamp |-> ts,
              recommendation |-> "Continue regular activities."]

TankAlert_StrictFull(snap, ts) ==
    LET p == snap.percent
        With(title, severity, recommendation) ==
            [type |-> "water_alert", title |-> title,
             message |-> [text |-> "Water tank is at", p |-> p,
                          a |-> snap.volume_cm3, c |-> snap.capacity_cm3],
             severity |-> severity, category |-> "water",
             timestamp |-> ts, recommendation |-> recommendation]
    IN  IF p > 90 THEN With("Water Tank Full", "high", "Turn off supply; check for leaks.")
        ELSE IF p <= 20 THEN With("Water Tank Low", "high", "Refill immediately.")
        ELSE IF p <= 40 THEN With("Water Tank Getting Low", "medium", "Plan a refill soon.")
        ELSE With("Water Tank Status Update", "low", "No immediate action required.")

TankAlert_Swapped(snap, ts) ==
    LET p == snap.percent
        With(title, severity, recommendation) ==
            [type |-> "water_alert", title |-> title,
             message |-> [text |-> "Water tank is at", p |-> p,
                          a |-> snap.volume_cm3, c |-> snap.capacity_cm3],
             severity |-> severity, category |-> "water",
             timestamp |-> ts, recommendation |-> recommendation]
    IN  IF p >= 90 THEN With("Water Tank Full", "high", "Turn off supply; check for leaks.")
        ELSE IF p <= 20 THEN With("Water Tank Low", "medium", "Refill immediately.")
        ELSE IF p <= 40 THEN With("Water Tank Getting Low", "high", "Plan a refill soon.")
        ELSE With("Water Tank Status Update", "low", "No immediate action required.")

\* The tank alert built from a snapshot, app.py:391-436
TankAlert(snap, ts) ==
    LET p == snap.percent
        base == [type |-> "water_alert", category |-> "water", timestamp |-> ts,
                 message |-> [text |-> "Water tank is at", p |-> p,
                              a |-> snap.volume_cm3, c |-> snap.capacity_cm3]]
        With(title, severity, recommendation) ==
            [type |-> base.type, title |-> title, message |-> base.message,
             severity |-> severity, category |-> base.category,
             timestamp |-> base.timestamp, recommendation |-> recommendation]
    IN  IF p >= 90 THEN With("Water Tank Full", "high", "Turn off supply; check for leaks.")
        ELSE IF p <= 20 THEN With("Water Tank Low", "high", "Refill immediately.")
        ELSE IF p <= 40 THEN With("Water Tank Getting Low", "medium", "Plan a refill soon.")
        ELSE With("Water Tank Status Update", "low", "No immediate action required.")

check_water_tank_alert_Propagates(resp, ts) ==
    LET snap == get_tank_snapshot(resp)
    IN  IF snap.ok THEN TankAlert(snap, ts) ELSE Raised

\* app.py:380-436
check_water_tank_alert(resp, ts) ==
    LET snap == get_tank_snapshot(resp)
    IN  IF ~snap.ok THEN None ELSE TankAlert(snap, ts)

\* The alert of the except branch, app.py:518-529
WeatherDataUnavailable(ts) ==
    [type |-> "irrigation_recommendation", title |-> "Weather Data Unavailable",
     message |-> [text |-> "Unable to fetch weather data."],
     severity |-> "medium", category |-> "irrigation", timestamp |-> ts,
     recommendation |-> "Check conditions manually."]

\* app.py:454
IrrHeavy(total_rain, max_rain, curr_rain) ==
    total_rain > 50 \/ max_rain > 20 \/ curr_rain > 10

IrrMedium_NoCurrent(total_rain, max_rain, curr_rain) ==
    total_rain > 10 \/ max_rain > 5

\* app.py:469
IrrMedium(total_rain, max_rain, curr_rain) ==
    total_rain > 10 \/ max_rain > 5 \/ curr_rain > 1

SoilMissing_Never(soil) == FALSE

\* sm is None, app.py:448, 483
SoilMissing(soil) == ~soil.present

\* app.py:496
IrrPerfect(total_rain, curr_rain, t, h) ==
    total_rain = 0 /\ curr_rain = 0 /\ t > 25 /\ h < 60

\* The decision list of the try block, app.py:441-517
IrrigationDecision(wx_resp, soil_resp, fc_resp, ts) ==
    LET weather == get_weather_data(wx_resp)
        soil == get_soil_data(soil_resp)
        forecast == get_weather_forecast(fc_resp)
        total_rain == IF forecast # <<>> THEN SumSeq(forecast) ELSE 0
        max_rain == MaxSeq(forecast)
        t == weather.temperature
        h == weather.humidity
        curr_rain == weather.rainfall
        wind == weather.wind_speed
        Wx(text) == [text |-> text, t |-> t, h |-> h, w |-> wind]
        Rec(title, message, severity, recommendation) ==
            [type |-> "irrigation_recommendation", title |-> title,
             message |-> message, severity |-> severity,
             category |-> "irrigation", timestamp |-> ts,
             recommendation |-> recommendation]
    IN  IF IrrHeavy(total_rain, max_rain, curr_rain)
        THEN Rec("Heavy Rain Alert - No Irrigation",
                 IF ~soil.present
                 THEN Wx("Heavy rain expected.")
                 ELSE [text |-> "Heavy rain expected. Soil", t |-> t, h |-> h, w |-> wind,
                       sm |-> IntOfTenths(soil.moisture),
                       st |-> IntOfTenths(soil.temperature),
                       sh |-> IntOfTenths(soil.humidity)],
                 "high", "Skip irrigation today.")
        ELSE IF IrrMedium(total_rain, max_rain, curr_rain)
        THEN Rec("Medium Rain - Limited Irrigation",
                 Wx("May rain today. Reduce irrigation by ~50%."),
                 "medium", "Use minimal irrigation and monitor.")
        ELSE IF SoilMissing(soil)
        THEN Rec("Normal Weather - Sensor Offline",
                 Wx("Normal conditions. Soil sensor data unavailable."),
                 "low", "Check sensor and follow your usual schedule.")
        ELSE IF IrrPerfect(total_rain, curr_rain, t, h)
        THEN Rec("Perfect Irrigation Day", Wx("Sunny and dry."),
                 "low", "Proceed with normal schedule.")
        ELSE Rec("Normal Weather - Regular Irrigation", Wx("Normal conditions."),
                 "low", "Follow your regular schedule.")

check_weather_irrigation_recommendation_Swallow(wx_resp, soil_resp, fc_resp, unexpected, ts) ==
    IF unexpected
    THEN None
    ELSE IrrigationDecision(wx_resp, soil_resp, fc_resp, ts)

\* app.py:439-529.  `unexpected`: some statement of the try block raised an
\* exception the fetches did not absorb; the except clause catches every
\* Exception and builds the fallback alert.
check_weather_irrigation_recommendation(wx_resp, soil_resp, fc_resp, unexpected, ts) ==
    IF unexpected
    THEN WeatherDataUnavailable(ts)
    ELSE IrrigationDecision(wx_resp, soil_resp, fc_resp, ts)

-----------------------------------------------------------------------------
(* The crop catalog and the crop filter of the dashboard.                   *)
(* A text is a sequence of items: a word, a space " " or a separator.       *)
(* Numbers of the catalog and of the soil reading are in tenths; a float    *)
(* is a record that says whether it is nan.                                 *)

MaxRows == 2     \* rows of the catalog

Val(x) == [nan |-> FALSE, v |-> x]
NaN == [nan |-> TRUE, v |-> 0]

\* Comparisons with nan are false, as numpy's are (app.py:767-778).
Leq(a, b) == ~a.nan /\ ~b.nan /\ a.v <= b.v

\* The words of the model and what str.lower makes of them.
Lower ==
    [w \in {"low", "Low", "LOW", "medium", "Medium", "high", "flooded", "nan",
            "loam", "Loam", "LOAM", "clay", "Maize", "maize", "Rice", "rice"} |->
        CASE w \in {"low", "Low", "LOW"} -> "low"
          [] w \in {"medium", "Medium"} -> "medium"
          [] w \in {"loam", "Loam", "LOAM"} -> "loam"
          [] w \in {"Maize", "maize"} -> "maize"
          [] w \in {"Rice", "rice"} -> "rice"
          [] OTHER -> w]

\* The separators of _tokenize_categories, app.py:721
Separators == {"/", ",", ";", "|", "-"}

LowerItem(c) == IF c \in DOMAIN Lower THEN Lower[c] ELSE c

RECURSIVE LStrip(_)
LStrip(s) == IF s # <<>> /\ Head(s) = " " THEN LStrip(Tail(s)) ELSE s

RECURSIVE RStrip(_)
RStrip(s) ==
    IF s # <<>> /\ s[Len(s)] = " " THEN RStrip(SubSeq(s, 1, Len(s) - 1)) ELSE s

\* str.strip
Strip(s) == RStrip(LStrip(s))

\* _norm, app.py:716-717
Norm(s) == LET t == Strip(s) IN [i \in 1..Len(t) |-> LowerItem(t[i])]

\* re.split on runs of separators, app.py:721: the parts between them, the
\* empty ones at either end included.
RECURSIVE Split(_, _)
Split(s, part) ==
    IF s = <<>> THEN <<part>>
    ELSE IF Head(s) \in Separators
    THEN IF Len(s) > 1 /\ s[2] \in Separators
         THEN Split(Tail(s), part)
         ELSE <<part>> \o Split(Tail(s), <<>>)
    ELSE Split(Tail(s), Append(part, Head(s)))

\* _tokenize_categories, app.py:719-722
tokenize_categories(cell) ==
    LET parts == Split(cell, <<>>)
        norms == [i \in 1..Len(parts) |-> Norm(parts[i])]
    IN  SelectSeq(norms, LAMBDA n : n # <<>>)

\* A cell as read_csv hands it over: an empty field is missing.
Missing == [missing |-> TRUE, text |-> <<>>]
Text(s) == [missing |-> FALSE, text |-> s]

\* astype(str).str.strip() at load, app.py:85-87: a missing cell becomes the
\* text "nan", every other cell loses the spaces around it.
LoadText(cell) == IF cell.missing THEN Text(<<"nan">>) ELSE Text(Strip(cell.text))

\* _num, app.py:700-714: a number is itself, a range "a-b" is its midpoint,
\* everything else (a missing cell, any other text) is nan.
num(cell) ==
    CASE cell.kind = "number" -> Val(cell.v)
      [] cell.kind = "range"  -> Val((cell.a + cell.b) \div 2)
      [] OTHER                -> NaN

\* The columns the load and the filter look at, app.py:85, 754-790.  A row is
\* a function from the columns of its catalog to cells.
TextColumns == {"Crop", "Soil Type", "Soil Moisture"}
NumericColumns == {"Min Temp", "Max temp", "Min Humidity", "Max Humidity"}

\* CROPS_DF, app.py:83-87: the text columns that exist are converted at load.
LoadRow(row) ==
    [c \in DOMAIN row |-> IF c \in TextColumns THEN LoadText(row[c]) ELSE row[c]]

LoadCatalog(raw) ==
    [columns |-> raw.columns,
     rows    |-> [i \in 1..Len(raw.rows) |-> LoadRow(raw.rows[i])]]

\* df[col].map(_num) over the numeric columns that exist, app.py:760-762
CoerceRow(row) ==
    [c \in DOMAIN row |-> IF c \in NumericColumns THEN num(row[c]) ELSE row[c]]

moisture_bucket_from_pct_Inclusive(pct) ==
    IF pct = None THEN "unknown"
    ELSE IF ~pct.nan /\ pct.v >= 900 THEN "flooded"
    ELSE IF ~pct.nan /\ pct.v >= 700 THEN "high"
    ELSE IF ~pct.nan /\ pct.v >= 400 THEN "medium"
    ELSE "low"

\* _moisture_bucket_from_pct, app.py:724-737: float(None) raises, and every
\* comparison with nan is false.
moisture_bucket_from_pct(pct) ==
    IF pct = None THEN "unknown"
    ELSE IF ~pct.nan /\ pct.v >= 900 THEN "flooded"
    ELSE IF ~pct.nan /\ pct.v > 700 THEN "high"
    ELSE IF ~pct.nan /\ pct.v >= 400 THEN "medium"
    ELSE "low"

\* str.capitalize of the bucket, app.py:741
Capitalize ==
    [b \in {"low", "medium", "high", "flooded"} |->
        CASE b = "low" -> "Low" [] b = "medium" -> "Medium"
          [] b = "high" -> "High" [] b = "flooded" -> "Flooded"]

\* selected_soil, app.py:675-676: the stripped form field, or None when it
\* is empty.
SelectedSoil(form) == IF Strip(form) = <<>> THEN None ELSE Text(Strip(form))

\* df["Crop"].notna(), app.py:792
notna(cell) == ~cell.missing

Mask_NoMoisture(row, cols, soil, live_bucket, selected_soil) ==
    /\ "Min Temp" \in cols => Leq(row["Min Temp"], Val(soil.temperature))
    /\ "Max temp" \in cols => Leq(Val(soil.temperature), row["Max temp"])
    /\ "Min Humidity" \in cols => Leq(row["Min Humidity"], Val(soil.humidity))
    /\ "Max Humidity" \in cols => Leq(Val(soil.humidity), row["Max Humidity"])
    /\ (selected_soil # None /\ "Soil Type" \in cols) =>
           Norm(row["Soil Type"].text) = Norm(selected_soil.text)
    /\ "Crop" \in cols => notna(row["Crop"])

\* The conjunctive mask of one row, app.py:764-792, over the coerced row.
Mask(row, cols, soil, live_bucket, selected_soil) ==
    /\ "Min Temp" \in cols => Leq(row["Min Temp"], Val(soil.temperature))
    /\ "Max temp" \in cols => Leq(Val(soil.temperature), row["Max temp"])
    /\ "Min Humidity" \in cols => Leq(row["Min Humidity"], Val(soil.humidity))
    /\ "Max Humidity" \in cols => Leq(Val(soil.humidity), row["Max Humidity"])
    /\ ("Soil Moisture" \in cols /\ live_bucket # "unknown") =>
           LET toks == tokenize_categories(row["Soil Moisture"].text)
           IN  \E i \in 1..Len(toks) : toks[i] = <<live_bucket>>
    /\ (selected_soil # None /\ "Soil Type" \in cols) =>
           Norm(row["Soil Type"].text) = Norm(selected_soil.text)
    /\ "Crop" \in cols => notna(row["Crop"])

\* session['recommended_crops'], app.py:801: the names of the rows that have
\* a Crop cell with text in it.
RecommendedNames(recommended, cols) ==
    IF "Crop" \notin cols THEN <<>>
    ELSE LET named == SelectSeq(recommended, LAMBDA r : r["Crop"].text # <<>>)
         IN  [i \in 1..Len(named) |-> named[i]["Crop"].text]

dashboard_FlashOnEmpty(CROPS_DF, soil_resp, form, unexpected) ==
    LET soil == get_soil_data(soil_resp) IN
    IF ~soil.present
    THEN [crops |-> <<>>, soil_category |-> "Unknown", recommended_crops |-> <<>>,
          no_live_data |-> TRUE]
    ELSE
    LET live_bucket == moisture_bucket_from_pct(Val(soil.moisture))
        df == [i \in 1..Len(CROPS_DF.rows) |-> CoerceRow(CROPS_DF.rows[i])]
        recommended ==
            IF unexpected THEN <<>>
            ELSE SelectSeq(df, LAMBDA row :
                     Mask(row, CROPS_DF.columns, soil, live_bucket, SelectedSoil(form)))
    IN  [crops |-> recommended,
         soil_category |-> Capitalize[live_bucket],
         recommended_crops |-> RecommendedNames(recommended, CROPS_DF.columns),
         no_live_data |-> (recommended = <<>>)]

\* dashboard, app.py:671-812, for a logged-in user: what the page is given.
\* Without soil nothing is recommended and the no-live-data warning is
\* flashed; with soil the filter runs inside a try whose except branch
\* leaves the recommendation empty.
dashboard(CROPS_DF, soil_resp, form, unexpected) ==
    LET soil == get_soil_data(soil_resp) IN
    IF ~soil.present
    THEN [crops |-> <<>>, soil_category |-> "Unknown", recommended_crops |-> <<>>,
          no_live_data |-> TRUE]
    ELSE
    LET live_bucket == moisture_bucket_from_pct(Val(soil.moisture))
        df == [i \in 1..Len(CROPS_DF.rows) |-> CoerceRow(CROPS_DF.rows[i])]
        recommended ==
            IF unexpected THEN <<>>
            ELSE SelectSeq(df, LAMBDA row :
                     Mask(row, CROPS_DF.columns, soil, live_bucket, SelectedSoil(form)))
    IN  [crops |-> recommended,
         soil_category |-> Capitalize[live_bucket],
         recommended_crops |-> RecommendedNames(recommended, CROPS_DF.columns),
         no_live_data |-> FALSE]

-----------------------------------------------------------------------------
(* Applying one fetch or one rule tree to one input                         *)

Pending == [pending |-> TRUE]
NoCall == [fn |-> "none", arg |-> <<>>, out |-> Pending]

Threads == {"scheduler", "request"}

\* A thread's frame: the entry point it runs, the stage it is to run next,
\* the alert add_alert has appended and not yet saved, and what the
\* evaluation has done so far: the outcome of its tank read, whether it
\* produced an offline-status message, how many alerts its stages built, the
\* feed positions it appended, the HTTP response of a request, and what the
\* fetches of the rain tree and of the irrigation tree returned to them.
Unread == [read |-> FALSE]

Idle == [op |-> "idle", pc |-> "idle", pending |-> None, tank |-> "unread",
         offline |-> FALSE, built |-> 0, created |-> <<>>, response |-> "none",
         rain_read |-> Unread, irrigation_read |-> Unread]

WeatherResponses == {Failed} \cup { Answer(j) : j \in WeatherPayloads }
ForecastResponses == {Failed} \cup { Answer(j) : j \in ForecastPayloads }
SoilResponses == {Failed} \cup { Answer(j) : j \in SoilPayloads }
TankResponses == {Failed} \cup { Answer(j) : j \in TankPayloads }

\* Smaller samples, used where the other inputs of a call carry the cases.
WeatherSample ==
    {Failed, Answer([temp |-> 255, humidity |-> 585, rain1h |-> 0, wind |-> 52]),
             Answer([temp |-> 245, humidity |-> 595, rain1h |-> 106, wind |-> 52])}
SoilSample ==
    {Failed, Answer([soil_pct |-> 650, temp_c |-> 221, humidity_pct |-> 554]),
             Answer([temp_c |-> 221, humidity_pct |-> 554])}

Snapshot_SoilAborts(wx_resp, fc_resp, soil_resp) ==
    IF soil_resp.ok
    THEN [weather  |-> get_weather_data(wx_resp),
          forecast |-> get_weather_forecast(fc_resp),
          soil     |-> get_soil_data(soil_resp)]
    ELSE Raised

\* The snapshot of the three fetches, as the rule trees gather it
\* (app.py:441-443, 291-299): each fetch sees only its own exchange.
Snapshot(wx_resp, fc_resp, soil_resp) ==
    [weather  |-> get_weather_data(wx_resp),
     forecast |-> get_weather_forecast(fc_resp),
     soil     |-> get_soil_data(soil_resp)]

Call(fn, arg) == [fn |-> fn, arg |-> arg, out |-> Pending]

MaxMoisture == 1000     \* largest soil_pct drawn for the moisture bucket, in tenths

\* Cells of the numeric columns as read_csv hands them over.
Number(v) == [kind |-> "number", v |-> v]
RangeText(a, b) == [kind |-> "range", a |-> a, b |-> b]
OtherText == [kind |-> "text"]
MissingNumber == [kind |-> "missing"]

AllColumns == TextColumns \cup NumericColumns

\* A row of cropsnew.csv; the humidity band is 40 to 80 in every row drawn.
CsvRow(crop, soil_type, soil_moisture, min_temp, max_temp) ==
    [c \in AllColumns |->
        CASE c = "Crop" -> crop
          [] c = "Soil Type" -> soil_type
          [] c = "Soil Moisture" -> soil_moisture
          [] c = "Min Temp" -> min_temp
          [] c = "Max temp" -> max_temp
          [] c = "Min Humidity" -> Number(400)
          [] c = "Max Humidity" -> Number(800)]

\* The rows catalogs are drawn from: plain rows, cells written with capitals
\* and spaces, a range, cells that do not parse, and rows whose Crop or
\* Soil Moisture cell is blank or missing.
CsvRows ==
    {CsvRow(Text(<<"Maize">>), Text(<<"Loam">>), Text(<<"low", "/", "medium">>),
            Number(100), Number(300)),
     CsvRow(Text(<<"Rice">>), Text(<<"clay">>), Text(<<"high">>),
            Number(100), Number(300)),
     CsvRow(Text(<<"Maize">>), Text(<<"Loam">>),
            Text(<<"Low", " ", ",", " ", "Medium">>),
            RangeText(100, 200), Number(300)),
     CsvRow(Text(<<"Rice">>), Text(<<"Loam">>), Text(<<"low", "/", "medium">>),
            OtherText, Number(300)),
     CsvRow(Text(<<" ", " ">>), Text(<<"Loam">>), Text(<<"low", "/", "medium">>),
            Number(100), Number(300)),
     CsvRow(Missing, Text(<<"clay">>), Text(<<"high">>),
            Number(100), Number(300)),
     CsvRow(Text(<<"Maize">>), Text(<<"Loam">>), Missing,
            Number(100), Number(300)),
     CsvRow(Text(<<"Rice">>), Text(<<"LOAM", " ">>), Text(<<"flooded", "-", "high">>),
            Number(100), MissingNumber)}

Catalogs ==
    UNION {[columns : {AllColumns}, rows : [1..n -> CsvRows]] : n \in 0..MaxRows}

\* The same three rows under every set of columns a catalog may have.
SchemaRows ==
    <<CsvRow(Text(<<"Maize">>), Text(<<"Loam">>), Text(<<"low", "/", "medium">>),
             Number(100), Number(300)),
      CsvRow(Text(<<"Rice">>), Text(<<"clay">>), Text(<<"high">>),
             Number(250), Number(300)),
      CsvRow(Text(<<" ", " ">>), Text(<<"Loam">>), Text(<<"low", "/", "medium">>),
             Number(100), Number(200))>>

SchemaCatalogs ==
    {[columns |-> K, rows |-> [i \in 1..Len(SchemaRows) |-> Restrict(SchemaRows[i], K)]] :
        K \in SUBSET AllColumns}

\* Soil readings around the bands of the rows: moisture, temperature and
\* humidity in tenths.
FilterSoil ==
    {Failed} \cup
    {Answer([soil_pct |-> r[1], temp_c |-> r[2], humidity_pct |-> r[3]]) :
        r \in {<<350, 220, 554>>, <<800, 220, 554>>, <<350, 120, 554>>,
               <<350, 350, 554>>, <<350, 220, 900>>, <<950, 220, 554>>}}

\* The soil_type field of the dashboard form.
Forms == {<<>>, <<"loam">>, <<" ", "LOAM", " ">>, <<"clay">>}

\* The applications a behaviour can start from: one function, one input.
CallDrawn ==
    \/ \E r \in TankResponses :
          call = Call("get_tank_snapshot", [tank |-> r])
    \/ \E r \in TankResponses :
          call = Call("check_water_tank_alert", [tank |-> r])
    \/ \E r \in SoilResponses :
          call = Call("get_soil_data", [soil |-> r])
    \/ \E w \in WeatherSample, f \in ForecastResponses, s \in SoilSample :
          call = Call("snapshot", [wx |-> w, fc |-> f, soil |-> s])
    \/ \E w \in WeatherSample, f \in ForecastResponses, s \in SoilResponses :
          call = Call("check_rain_alert", [wx |-> w, fc |-> f, soil |-> s])
    \/ \E w \in WeatherResponses, f \in ForecastResponses, s \in SoilSample,
          x \in BOOLEAN :
          call = Call("check_weather_irrigation_recommendation",
                      [wx |-> w, fc |-> f, soil |-> s, unexpected |-> x])
    \/ \E c \in Catalogs, s \in FilterSoil, f \in Forms, x \in BOOLEAN :
          call = Call("dashboard", [catalog |-> c, soil |-> s, form |-> f,
                                    unexpected |-> x])
    \/ \E c \in SchemaCatalogs, s \in FilterSoil, f \in {<<>>, <<"clay">>} :
          call = Call("dashboard", [catalog |-> c, soil |-> s, form |-> f,
                                    unexpected |-> FALSE])
    \/ \E m \in 0..MaxMoisture :
          call = Call("dashboard",
                      [catalog |-> [columns |-> AllColumns, rows |-> <<>>],
                       soil |-> Answer([soil_pct |-> m, temp_c |-> 220,
                                        humidity_pct |-> 554]),
                       form |-> <<>>, unexpected |-> FALSE])

InitFn ==
    /\ FARMER_ALERTS = <<>>
    /\ alert_history = <<>>
    /\ session = {}
    /\ now = 0
    /\ frame = [t \in Threads |-> Idle]
    /\ CallDrawn

Ready(fn) == call.fn = fn /\ call.out = Pending

Return(v) ==
    /\ call' = [call EXCEPT !.out = v]
    /\ UNCHANGED <<FARMER_ALERTS, alert_history, session, now, frame>>

ApplyTankSnapshot ==
    /\ Ready("get_tank_snapshot")
    /\ Return(get_tank_snapshot(call.arg.tank))

ApplyTankAlert ==
    /\ Ready("check_water_tank_alert")
    /\ Return(check_water_tank_alert(call.arg.tank, now))

ApplySoilData ==
    /\ Ready("get_soil_data")
    /\ Return(get_soil_data(call.arg.soil))

ApplySnapshot ==
    /\ Ready("snapshot")
    /\ Return(Snapshot(call.arg.wx, call.arg.fc, call.arg.soil))

ApplyRainAlert ==
    /\ Ready("check_rain_alert")
    /\ Return(check_rain_alert(call.arg.fc, call.arg.wx, call.arg.soil, now))

ApplyIrrigation ==
    /\ Ready("check_weather_irrigation_recommendation")
    /\ Return(check_weather_irrigation_recommendation(
                 call.arg.wx, call.arg.soil, call.arg.fc, call.arg.unexpected, now))

\* The page is rendered from the catalog as loaded at start-up.
ApplyDashboard ==
    /\ Ready("dashboard")
    /\ Return(dashboard(LoadCatalog(call.arg.catalog), call.arg.soil,
                        call.arg.form, call.arg.unexpected))

NextFn ==
    \/ ApplyTankSnapshot
    \/ ApplyTankAlert
    \/ ApplySoilData
    \/ ApplySnapshot
    \/ ApplyRainAlert
    \/ ApplyIrrigation
    \/ ApplyDashboard

SpecFn == InitFn /\ [][NextFn]_vars

-----------------------------------------------------------------------------
(* The running system: the scheduler thread and a request thread share the  *)
(* feed and the alert history.                                              *)

MaxFeed == 2     \* alerts the feed may hold

\* What the collaborators answer while the system runs.
SysWeather == {Failed, Answer([temp |-> 255, humidity |-> 585, rain1h |-> 0, wind |-> 52])}
SysForecast == {Failed, Answer(<<0>>)}
SysSoil == {Failed, Answer([soil_pct |-> 396, temp_c |-> 221, humidity_pct |-> 554])}
SysTank == {Failed, Answer([ultrasonic_cm |-> 800])}

\* app.py:539-550
DailyUpdate(w, ts) ==
    [type |-> "weather_update", title |-> "Daily Weather Update",
     message |-> [text |-> "Today's weather. No significant rain expected.",
                  t |-> w.temperature, h |-> w.humidity],
     severity |-> "low", category |-> "weather", timestamp |-> ts,
     recommendation |-> "Normal irrigation schedule can be followed."]

\* app.py:563-572
OfflineStatus(ts) ==
    [type |-> "water_status", title |-> "Water Tank Status",
     message |-> [text |-> "Sensor offline. Unable to read tank just now."],
     severity |-> "low", category |-> "water", timestamp |-> ts,
     recommendation |-> "Check the device connection."]

\* The row save_alert_to_db inserts, app.py:138-151
Row(alert, userid) ==
    [userid |-> userid, alert_type |-> alert.type, title |-> alert.title,
     message |-> alert.message, severity |-> alert.severity,
     category |-> alert.category, created_at |-> alert.timestamp]

Init ==
    /\ FARMER_ALERTS = <<>>
    /\ alert_history = <<>>
    /\ session = {}
    /\ now = 0
    /\ frame = [t \in Threads |-> Idle]
    /\ call = NoCall

\* The thread runs no entry point, or has finished the one it ran; the
\* request thread serves the next request after one that raised as well.
CanStart(t) ==
    /\ \/ frame[t].pc \in {"idle", "end"}
       \/ t = "request" /\ frame[t].pc = "raised"
    /\ frame[t].pending = None

\* The thread is to run stage pc of entry point op.
At(t, op, pc) == frame[t].op = op /\ frame[t].pc = pc /\ frame[t].pending = None

Begin(op, pc) == [Idle EXCEPT !.op = op, !.pc = pc]

\* The alert without the time it was built at.
Untimed(alert) == [alert EXCEPT !.timestamp = 0]

add_alert_Dedup(t, fr, alert, save_for_user) ==
    IF \/ alert = None
       \/ \E i \in 1..Len(FARMER_ALERTS) : Untimed(FARMER_ALERTS[i]) = Untimed(alert)
    THEN /\ frame' = [frame EXCEPT ![t] = fr]
         /\ UNCHANGED <<FARMER_ALERTS, now>>
    ELSE /\ Len(FARMER_ALERTS) < MaxFeed
         /\ FARMER_ALERTS' = Append(FARMER_ALERTS, alert)
         /\ now' = now + 1
         /\ frame' = [frame EXCEPT ![t] =
                         [fr EXCEPT !.pending = [alert |-> alert, userid |-> save_for_user],
                                    !.created = Append(@, Len(FARMER_ALERTS) + 1)]]

add_alert_Overwrite(t, fr, alert, save_for_user) ==
    IF alert = None
    THEN /\ frame' = [frame EXCEPT ![t] = fr]
         /\ UNCHANGED <<FARMER_ALERTS, now>>
    ELSE IF \E u \in Threads \ {t} : frame[u].pending # None
    THEN /\ FARMER_ALERTS' = [FARMER_ALERTS EXCEPT ![Len(FARMER_ALERTS)] = alert]
         /\ now' = now + 1
         /\ frame' = [frame EXCEPT ![t] =
                         [fr EXCEPT !.pending = [alert |-> alert, userid |-> save_for_user],
                                    !.created = Append(@, Len(FARMER_ALERTS))]]
    ELSE /\ Len(FARMER_ALERTS) < MaxFeed
         /\ FARMER_ALERTS' = Append(FARMER_ALERTS, alert)
         /\ now' = now + 1
         /\ frame' = [frame EXCEPT ![t] =
                         [fr EXCEPT !.pending = [alert |-> alert, userid |-> save_for_user],
                                    !.created = Append(@, Len(FARMER_ALERTS) + 1)]]

\* add_alert, app.py:284-288, at the end of a stage that leaves thread t with
\* frame fr: an empty alert changes nothing; otherwise the alert is appended
\* to the feed and handed to save_alert_to_db.  The clock has advanced past
\* the timestamp of the alert.
add_alert(t, fr, alert, save_for_user) ==
    IF alert = None
    THEN /\ frame' = [frame EXCEPT ![t] = fr]
         /\ UNCHANGED <<FARMER_ALERTS, now>>
    ELSE /\ Len(FARMER_ALERTS) < MaxFeed
         /\ FARMER_ALERTS' = Append(FARMER_ALERTS, alert)
         /\ now' = now + 1
         /\ frame' = [frame EXCEPT ![t] =
                         [fr EXCEPT !.pending = [alert |-> alert, userid |-> save_for_user],
                                    !.created = Append(@, Len(FARMER_ALERTS) + 1)]]

save_alert_to_db_Anonymous(t) ==
    /\ frame[t].pending # None
    /\ alert_history' = Append(alert_history, Row(frame[t].pending.alert, "NULL"))
    /\ frame' = [frame EXCEPT ![t].pending = None]
    /\ UNCHANGED <<FARMER_ALERTS, session, now, call>>

\* A stage hands the alert it built, if any, to add_alert (`if ra:
\* add_alert(ra)`, app.py:535-536, 554-555, 955-965); the frame counts the
\* alerts built.  No entry point catches an exception of a rule tree: a tree
\* that raised would end the entry point there.
Emit(t, fr, alert, save_for_user) ==
    IF alert = Raised
    THEN /\ frame' = [frame EXCEPT ![t] = [fr EXCEPT !.pc = "raised"]]
         /\ UNCHANGED <<FARMER_ALERTS, now>>
    ELSE add_alert(t, [fr EXCEPT !.built = IF alert = None THEN @ ELSE @ + 1],
                   alert, save_for_user)

\* save_alert_to_db, app.py:135-153
save_alert_to_db(t) ==
    /\ frame[t].pending # None
    /\ alert_history' = Append(alert_history,
                               Row(frame[t].pending.alert, frame[t].pending.userid))
    /\ frame' = [frame EXCEPT ![t].pending = None]
    /\ UNCHANGED <<FARMER_ALERTS, session, now, call>>

\* generate_daily_weather_alert, app.py:534-551: the rain tree, or the daily
\* update built from a second weather fetch.
daily_rain(t) ==
    /\ t = "scheduler"
    /\ CanStart(t)
    /\ \E fc \in SysForecast, wx \in SysWeather, soil \in SysSoil, wx2 \in SysWeather :
          LET ra == check_rain_alert(fc, wx, soil, now)
              alert == IF ra # None THEN ra
                       ELSE DailyUpdate(get_weather_data(wx2), now)
          IN  Emit(t, Begin("generate_daily_weather_alert", "tank"), alert, "NULL")
    /\ UNCHANGED <<alert_history, session, call>>

\* The outcome of a tank read, as the evaluation records it.
TankOutcome(wa) == IF wa = None THEN "failed" ELSE "ok"

\* generate_daily_weather_alert, app.py:553-555
daily_tank(t) ==
    /\ At(t, "generate_daily_weather_alert", "tank")
    /\ \E tk \in SysTank :
          LET wa == check_water_tank_alert(tk, now)
          IN  Emit(t, [frame[t] EXCEPT !.pc = "end", !.tank = TankOutcome(wa)],
                        wa, "NULL")
    /\ UNCHANGED <<alert_history, session, call>>

\* generate_water_tank_alert, app.py:557-573
generate_water_tank_alert(t) ==
    /\ t = "scheduler"
    /\ CanStart(t)
    /\ \E tk \in SysTank :
          LET wa == check_water_tank_alert(tk, now)
              fr == [Begin("generate_water_tank_alert", "end")
                       EXCEPT !.tank = TankOutcome(wa), !.offline = (wa = None)]
          IN  Emit(t, fr, IF wa # None THEN wa ELSE OfflineStatus(now), "NULL")
    /\ UNCHANGED <<alert_history, session, call>>

\* login, app.py:635-656: a matching user row fills the session.
login ==
    /\ \E found \in BOOLEAN :
          session' = IF found
                     THEN session \cup {"userid", "username", "password", "phone"}
                     ELSE session
    /\ UNCHANGED <<FARMER_ALERTS, alert_history, now, frame, call>>

\* logout, app.py:659-663
logout ==
    /\ session' = session \ {"username"}
    /\ UNCHANGED <<FARMER_ALERTS, alert_history, now, frame, call>>

request_Open(t, op, first) ==
    /\ t = "request"
    /\ CanStart(t)
    /\ frame' = [frame EXCEPT ![t] = Begin(op, first)]
    /\ UNCHANGED <<FARMER_ALERTS, alert_history, session, now, call>>

\* The session check that opens every API handler, app.py:951-952, 971-972,
\* 981-982, 1009-1010, 1020-1021
request(t, op, first) ==
    /\ t = "request"
    /\ CanStart(t)
    /\ frame' = [frame EXCEPT ![t] =
                    IF "username" \in session
                    THEN Begin(op, first)
                    ELSE [Begin(op, "end") EXCEPT !.response = "401 Unauthorized"]]
    /\ UNCHANGED <<FARMER_ALERTS, alert_history, session, now, call>>

api_run_alerts(t) == request(t, "api_run_alerts", "rain")

manual_water_tank_alert(t) == request(t, "manual_water_tank_alert", "tank")

\* What the fetches of check_rain_alert return to it, app.py:291-299: the
\* forecast first, and the weather and the soil reading only when the forecast
\* is not empty.
RainRead(fc, wx, soil) ==
    LET forecast == get_weather_forecast(fc)
    IN  [read |-> TRUE, forecast |-> forecast,
         weather |-> IF forecast = <<>> THEN Unread ELSE get_weather_data(wx),
         soil |-> IF forecast = <<>> THEN Unread ELSE get_soil_data(soil)]

\* What the fetches of check_weather_irrigation_recommendation return to it,
\* app.py:441-443.
IrrigationRead(wx, soil, fc) ==
    [read |-> TRUE, forecast |-> get_weather_forecast(fc),
     weather |-> get_weather_data(wx), soil |-> get_soil_data(soil)]

\* api_run_alerts, app.py:954-957
run_rain(t) ==
    /\ At(t, "api_run_alerts", "rain")
    /\ \E fc \in SysForecast, wx \in SysWeather, soil \in SysSoil :
          Emit(t, [frame[t] EXCEPT !.pc = "tank", !.rain_read = RainRead(fc, wx, soil)],
                    check_rain_alert(fc, wx, soil, now), "NULL")
    /\ UNCHANGED <<alert_history, session, call>>

\* api_run_alerts, app.py:958-961
run_tank(t) ==
    /\ At(t, "api_run_alerts", "tank")
    /\ \E tk \in SysTank :
          LET wa == check_water_tank_alert(tk, now)
          IN  Emit(t, [frame[t] EXCEPT !.pc = "irrigation",
                                            !.tank = TankOutcome(wa)],
                        wa, "NULL")
    /\ UNCHANGED <<alert_history, session, call>>

\* api_run_alerts, app.py:962-966
run_irrigation(t) ==
    /\ At(t, "api_run_alerts", "irrigation")
    /\ \E wx \in SysWeather, soil \in SysSoil, fc \in SysForecast, x \in BOOLEAN :
          Emit(t, [frame[t] EXCEPT !.pc = "end", !.response = "200 ok",
                                   !.irrigation_read = IrrigationRead(wx, soil, fc)],
                    check_weather_irrigation_recommendation(wx, soil, fc, x, now),
                    "NULL")
    /\ UNCHANGED <<alert_history, session, call>>

\* manual_water_tank_alert, app.py:984-1005: without an alert the handler
\* reads the tank a second time and answers with the live status or with 502.
manual_tank(t) ==
    /\ At(t, "manual_water_tank_alert", "tank")
    /\ \E tk \in SysTank, tk2 \in SysTank :
          LET wa == check_water_tank_alert(tk, now)
              snap == get_tank_snapshot(tk2)
              fr == [frame[t] EXCEPT
                       !.pc = "end",
                       !.tank = TankOutcome(wa),
                       !.offline = (wa = None /\ ~snap.ok),
                       !.response = IF wa # None THEN "200 success"
                                    ELSE IF snap.ok THEN "200 no_alert"
                                    ELSE "502 Sensor offline"]
          IN  Emit(t, fr, wa, "NULL")
    /\ UNCHANGED <<alert_history, session, call>>

manual_weather_alert(t) == request(t, "manual_weather_alert", "rain")

\* manual_weather_alert, app.py:973-977
manual_rain(t) ==
    /\ At(t, "manual_weather_alert", "rain")
    /\ \E fc \in SysForecast, wx \in SysWeather, soil \in SysSoil :
          LET alert == check_rain_alert(fc, wx, soil, now)
              fr == [frame[t] EXCEPT
                       !.pc = "end",
                       !.response = IF alert # None THEN "200 success"
                                    ELSE "200 no_alert"]
          IN  Emit(t, fr, alert, "NULL")
    /\ UNCHANGED <<alert_history, session, call>>

manual_weather_irrigation_recommendation(t) ==
    request(t, "manual_weather_irrigation_recommendation", "irrigation")

\* manual_weather_irrigation_recommendation, app.py:1011-1015
manual_irrigation(t) ==
    /\ At(t, "manual_weather_irrigation_recommendation", "irrigation")
    /\ \E wx \in SysWeather, soil \in SysSoil, fc \in SysForecast, x \in BOOLEAN :
          LET alert == check_weather_irrigation_recommendation(wx, soil, fc, x, now)
              fr == [frame[t] EXCEPT
                       !.pc = "end",
                       !.response = IF alert # None THEN "200 success"
                                    ELSE "200 no_alert"]
          IN  Emit(t, fr, alert, "NULL")
    /\ UNCHANGED <<alert_history, session, call>>

\* The user the session belongs to after a login, app.py:648
User == "farmer1"

\* The crop names a request may carry; the empty one is a missing field.
CropNames == {"", "Maize"}

\* user_crops gets one row for every crop alert of the feed (the insert and
\* add_alert are one step of the handler), so the id of its next row is one
\* more than their number.
NextCropId ==
    1 + Cardinality({i \in 1..Len(FARMER_ALERTS) : "crop_id" \in DOMAIN FARMER_ALERTS[i]})

\* app.py:1053-1069
CropAlert(crop_name, crop_id, ts) ==
    [type |-> "irrigation_alert", title |-> "Growing " \o crop_name,
     message |-> [text |-> "You are now growing", crop |-> crop_name],
     severity |-> "medium", category |-> "irrigation", timestamp |-> ts,
     recommendation |-> "Monitor soil moisture regularly.",
     crop_name |-> crop_name, crop_id |-> crop_id]

add_crop_to_irrigation(t) == request(t, "add_crop_to_irrigation", "insert")

\* add_crop_to_irrigation, app.py:1023-1071: a missing field answers 400, a
\* failed insert into user_crops answers 500, otherwise the crop alert is
\* recorded for the user of the session.
add_crop(t) ==
    /\ At(t, "add_crop_to_irrigation", "insert")
    /\ \E crop_name \in CropNames, inserted \in BOOLEAN :
          LET fr == [frame[t] EXCEPT
                       !.pc = "end",
                       !.response = IF crop_name = "" THEN "400 Missing required fields"
                                    ELSE IF ~inserted THEN "500 Database error"
                                    ELSE "200 success"]
              alert == IF crop_name = "" \/ ~inserted THEN None
                       ELSE CropAlert(crop_name, NextCropId, now)
          IN  Emit(t, fr, alert, User)
    /\ UNCHANGED <<alert_history, session, call>>

Next ==
    \/ \E t \in Threads : save_alert_to_db(t)
    \/ \E t \in Threads : daily_rain(t)
    \/ \E t \in Threads : daily_tank(t)
    \/ \E t \in Threads : generate_water_tank_alert(t)
    \/ login
    \/ logout
    \/ \E t \in Threads : api_run_alerts(t)
    \/ \E t \in Threads : manual_water_tank_alert(t)
    \/ \E t \in Threads : run_rain(t)
    \/ \E t \in Threads : run_tank(t)
    \/ \E t \in Threads : run_irrigation(t)
    \/ \E t \in Threads : manual_tank(t)
    \/ \E t \in Threads : add_crop_to_irrigation(t)
    \/ \E t \in Threads : add_crop(t)
    \/ \E t \in Threads : manual_weather_alert(t)
    \/ \E t \in Threads : manual_rain(t)
    \/ \E t \in Threads : manual_weather_irrigation_recommendation(t)
    \/ \E t \in Threads : manual_irrigation(t)

Spec == Init /\ [][Next]_vars

-----------------------------------------------------------------------------
(* Properties of the fetches and the rule trees, checked under SpecFn       *)

Returned(fn) == call.fn = fn /\ call.out # Pending

\* The tank reading of a call is available: the exchange succeeded and
\* reported ultrasonic_cm.
TankAvailable(resp) == resp.ok /\ "ultrasonic_cm" \in DOMAIN resp.json

\* C1: check_water_tank_alert returns no alert when the tank read fails, and
\* otherwise exactly one alert of category water whose message carries the
\* percent, volume_cm3 and capacity_cm3 of the reading and whose title and
\* severity are those of the first matching threshold: percent >= 90 high
\* "Water Tank Full", percent <= 20 high "Water Tank Low", percent <= 40
\* medium "Water Tank Getting Low", otherwise a low status update.
C1_TankTree ==
    Returned("check_water_tank_alert") =>
        LET resp == call.arg.tank
            a == call.out
        IN  IF ~TankAvailable(resp)
            THEN a = None
            ELSE LET snap == get_tank_snapshot(resp)
                     p == snap.percent
                 IN  /\ a # None
                     /\ a.category = "water"
                     /\ a.message.p = p
                     /\ a.message.a = snap.volume_cm3
                     /\ a.message.c = snap.capacity_cm3
                     /\ <<a.title, a.severity>> =
                          IF p >= 90 THEN <<"Water Tank Full", "high">>
                          ELSE IF p <= 20 THEN <<"Water Tank Low", "high">>
                          ELSE IF p <= 40 THEN <<"Water Tank Getting Low", "medium">>
                          ELSE <<"Water Tank Status Update", "low">>

C1_Witness ==
    /\ Returned("check_water_tank_alert")
    /\ TankAvailable(call.arg.tank)
    /\ call.out.message.p = 90
    /\ call.out.title = "Water Tank Full"

\* C2: check_rain_alert returns None exactly when today's forecast is empty;
\* for a non-empty forecast it returns the alert of the first matching branch
\* on total_rain (the sum) and max_rain (the maximum) of the forecast rain:
\* > 5.0 or > 2.0 high "Heavy Rain Alert"; else > 1.0 or > 0.5 medium "Rain
\* Expected Today"; else total > 0.1 low "Uncertain Weather"; else, with soil
\* present and moisture < 40, a medium irrigation alert, otherwise a low
\* "Good Weather Day" alert of category weather.
C2_RainTree ==
    Returned("check_rain_alert") =>
        LET forecast == get_weather_forecast(call.arg.fc)
            soil == get_soil_data(call.arg.soil)
            total_rain == SumSeq(forecast)
            max_rain == MaxSeq(forecast)
            a == call.out
        IN  /\ (a = None) <=> (forecast = <<>>)
            /\ forecast # <<>> =>
                 <<a.title, a.severity, a.category>> =
                    IF total_rain > 50 \/ max_rain > 20
                    THEN <<"Heavy Rain Alert", "high", "weather">>
                    ELSE IF total_rain > 10 \/ max_rain > 5
                    THEN <<"Rain Expected Today", "medium", "weather">>
                    ELSE IF total_rain > 1
                    THEN <<"Uncertain Weather", "low", "weather">>
                    ELSE IF soil.present /\ soil.moisture < 400
                    THEN <<"No Rain, Irrigation Needed", "medium", "irrigation">>
                    ELSE <<"Good Weather Day", "low", "weather">>

C2_Witness ==
    /\ Returned("check_rain_alert")
    /\ call.arg.fc.ok
    /\ call.arg.fc.json = <<6, 0>>
    /\ call.out.title = "Rain Expected Today"

\* C3: when the try block completes, check_weather_irrigation_recommendation
\* yields the alert of the first matching branch: (1) total_rain > 5.0 or
\* max_rain > 2.0 or current_rainfall > 1.0 high "No Irrigation"; (2) else
\* total_rain > 1.0 or max_rain > 0.5 or current_rainfall > 0.1 medium
\* "Limited Irrigation"; (3) else soil absent low "Sensor Offline"; (4) else
\* total_rain == 0 and current_rainfall == 0 and temperature > 25 and
\* humidity < 60 low "Perfect Irrigation Day"; (5) else low "Regular
\* Irrigation".  An empty forecast counts as total 0 and max 0; the category
\* is always irrigation.
C3_IrrigationTree ==
    (Returned("check_weather_irrigation_recommendation") /\ ~call.arg.unexpected) =>
        LET weather == get_weather_data(call.arg.wx)
            forecast == get_weather_forecast(call.arg.fc)
            soil == get_soil_data(call.arg.soil)
            total_rain == SumSeq(forecast)
            max_rain == MaxSeq(forecast)
            curr == weather.rainfall
            a == call.out
        IN  /\ a.category = "irrigation"
            /\ <<a.title, a.severity>> =
                 IF total_rain > 50 \/ max_rain > 20 \/ curr > 10
                 THEN <<"Heavy Rain Alert - No Irrigation", "high">>
                 ELSE IF total_rain > 10 \/ max_rain > 5 \/ curr > 1
                 THEN <<"Medium Rain - Limited Irrigation", "medium">>
                 ELSE IF ~soil.present
                 THEN <<"Normal Weather - Sensor Offline", "low">>
                 ELSE IF /\ total_rain = 0 /\ curr = 0
                         /\ weather.temperature > 25 /\ weather.humidity < 60
                 THEN <<"Perfect Irrigation Day", "low">>
                 ELSE <<"Normal Weather - Regular Irrigation", "low">>

C3_Witness ==
    /\ Returned("check_weather_irrigation_recommendation")
    /\ ~call.arg.unexpected
    /\ call.arg.fc.ok /\ call.arg.fc.json = <<0, 0>>
    /\ call.arg.wx.ok /\ call.arg.wx.json.rain1h = 16
    /\ call.out.title = "Medium Rain - Limited Irrigation"

\* The rain the irrigation tree sees in a call.
NoRainInCall ==
    LET weather == get_weather_data(call.arg.wx)
        forecast == get_weather_forecast(call.arg.fc)
    IN  /\ SumSeq(forecast) <= 10
        /\ MaxSeq(forecast) <= 5
        /\ weather.rainfall <= 1

\* C4 as stated: whenever the soil reading is absent, the irrigation tree
\* returns the "Sensor Offline" alert, whatever the weather and forecast.
C4_AbsentSoilAlwaysOffline ==
    (/\ Returned("check_weather_irrigation_recommendation")
     /\ ~call.arg.unexpected
     /\ ~call.arg.soil.ok)
        => call.out.title = "Normal Weather - Sensor Offline"

\* C4 as amended: whenever the soil reading is absent and neither rain branch
\* matches (total_rain <= 1.0, max_rain <= 0.5, current_rainfall <= 0.1), the
\* irrigation tree returns the low "Sensor Offline" alert for every
\* temperature and humidity; with soil absent and rain, it returns the alert
\* of the rain branch.
C4_AbsentSoilOfflineUnlessRain ==
    (/\ Returned("check_weather_irrigation_recommendation")
     /\ ~call.arg.unexpected
     /\ ~call.arg.soil.ok)
        => IF NoRainInCall
           THEN /\ call.out.title = "Normal Weather - Sensor Offline"
                /\ call.out.severity = "low"
           ELSE call.out.title \in {"Heavy Rain Alert - No Irrigation",
                                    "Medium Rain - Limited Irrigation"}

C4_Witness ==
    /\ Returned("check_weather_irrigation_recommendation")
    /\ ~call.arg.unexpected
    /\ ~call.arg.soil.ok
    /\ call.arg.wx.ok /\ call.arg.wx.json.temp = 255 /\ call.arg.wx.json.humidity = 585
    /\ call.arg.wx.json.rain1h = 12
    /\ call.arg.fc.ok /\ call.arg.fc.json = <<5, 5>>
    /\ call.out.title = "Normal Weather - Sensor Offline"

\* A tank snapshot was computed from a reading.
SnapshotTaken ==
    /\ Returned("get_tank_snapshot")
    /\ TankAvailable(call.arg.tank)

ReadingOfCall == call.arg.tank.json.ultrasonic_cm

\* C5 as stated: for every reading u >= 0, 0 <= percent <= 100, and
\* percent = 100 if and only if u <= 0.
C5_FullOnlyAtZero ==
    (SnapshotTaken /\ ReadingOfCall >= 0) =>
        /\ call.out.percent >= 0
        /\ call.out.percent <= 100
        /\ (call.out.percent = 100) <=> (ReadingOfCall <= 0)

\* C5 as amended: for every reading u >= 0, 0 <= percent <= 100, and
\* percent = 100 if and only if 100 * (H1 - u) / H1 >= 99.5, that is
\* u <= H1 / 200 = 0.0475 cm: every u <= 0 gives 100, and so do the readings
\* 0 < u <= 0.04 cm.
C5_FullWithinRounding ==
    (SnapshotTaken /\ ReadingOfCall >= 0) =>
        /\ call.out.percent >= 0
        /\ call.out.percent <= 100
        /\ (call.out.percent = 100) <=> (200 * ReadingOfCall <= TANK_H1_CM)

C5_Witness ==
    /\ SnapshotTaken
    /\ ReadingOfCall = 4
    /\ call.out.percent = 100

\* C6: the water height is max(0, min(H1, H1 - u)) for every reading, so
\* 0 <= height_cm <= H1; for every u >= H1 the height and the percent are 0
\* (never negative), and for every u <= 0 the height is H1.
C6_HeightClamped ==
    SnapshotTaken =>
        LET u == ReadingOfCall IN
        /\ call.out.height_cm >= 0
        /\ call.out.height_cm <= TANK_H1_CM
        /\ call.out.height_cm =
             (IF u <= 0 THEN TANK_H1_CM
              ELSE IF u >= TANK_H1_CM THEN 0
              ELSE TANK_H1_CM - u)
        /\ u >= TANK_H1_CM => (call.out.height_cm = 0 /\ call.out.percent = 0)
        /\ u <= 0 => call.out.height_cm = TANK_H1_CM

C6_Witness ==
    /\ SnapshotTaken
    /\ ReadingOfCall = TANK_H1_CM + 5
    /\ call.out.height_cm = 0
    /\ call.out.percent = 0

\* The thread's evaluation has read the tank for the tank tree and the read
\* failed.
TankReadFailed(t) == frame[t].tank = "failed"

\* The alerts the thread's evaluation appended that carry tank values.
TankValuedAlerts(t) ==
    {i \in 1..Len(frame[t].created) :
        "p" \in DOMAIN FARMER_ALERTS[frame[t].created[i]].message}

\* C7: in every entry point that runs the tank tree (generate_water_tank_alert,
\* generate_daily_weather_alert, /api/run_alerts, /api/water_tank_alert) a
\* failed tank read makes the caller produce an offline-status message in
\* place of a tank alert, and no alert carrying tank percent or volume values
\* is appended for that read.
C7_OfflineMessageOnFailedRead ==
    \A t \in Threads :
        TankReadFailed(t) =>
            /\ frame[t].offline
            /\ TankValuedAlerts(t) = {}

\* The part of C7 the code keeps: an evaluation whose tank read failed has
\* appended no alert carrying tank values.
C7_NoTankValuesOnFailedRead ==
    \A t \in Threads : TankReadFailed(t) => TankValuedAlerts(t) = {}

\* The scheduled tank check is the entry point that does substitute the
\* offline-status alert.
C7_Witness ==
    /\ frame["scheduler"].op = "generate_water_tank_alert"
    /\ TankReadFailed("scheduler")
    /\ frame["scheduler"].offline
    /\ FARMER_ALERTS[frame["scheduler"].created[1]].title = "Water Tank Status"

\* C8: the three fetches fail independently, each with its own fallback: a
\* failed weather fetch yields {22, 70, 0, 5}, a failed forecast fetch the
\* empty forecast, a failed soil fetch the absent sentinel.  In each of the
\* 8 combinations of success and failure no fetch raises, and each result is
\* what that fetch yields from its own exchange alone.
C8_IndependentFallbacks ==
    Returned("snapshot") =>
        LET wx == call.arg.wx
            fc == call.arg.fc
            soil == call.arg.soil
            out == call.out
        IN  /\ out # Raised
            /\ out.weather =
                 IF wx.ok
                 THEN [temperature |-> RoundDiv(wx.json.temp, 10),
                       humidity    |-> RoundDiv(wx.json.humidity, 10),
                       rainfall    |-> RoundDiv(wx.json.rain1h, 10),
                       wind_speed  |-> RoundDiv(wx.json.wind, 10)]
                 ELSE [temperature |-> 22, humidity |-> 70,
                       rainfall |-> 0, wind_speed |-> 5]
            /\ out.forecast = IF fc.ok THEN fc.json ELSE <<>>
            /\ out.soil.present = soil.ok

C8_Witness ==
    /\ Returned("snapshot")
    /\ call.arg.wx.ok /\ ~call.arg.soil.ok
    /\ call.arg.fc.ok /\ call.arg.fc.json = <<21>>
    /\ call.out.weather.temperature = 26
    /\ call.out.forecast = <<21>>
    /\ call.out.soil = NoSoil

\* C9: no numeric default is substituted for a soil value: every moisture,
\* temperature and humidity get_soil_data hands on is a value the device
\* reported, and in every other case (device unreachable, or a field not
\* reported) the result is the absent sentinel.
C9_NoSoilDefault ==
    Returned("get_soil_data") =>
        LET resp == call.arg.soil IN
        IF resp.ok /\ SoilKeys \subseteq DOMAIN resp.json
        THEN call.out = [present     |-> TRUE,
                         moisture    |-> resp.json.soil_pct,
                         temperature |-> resp.json.temp_c,
                         humidity    |-> resp.json.humidity_pct]
        ELSE call.out = NoSoil

\* C10: check_weather_irrigation_recommendation never raises and never
\* returns "no alert"; when a step of the try block fails unexpectedly it
\* returns the medium "Weather Data Unavailable" alert of category irrigation.
C10_IrrigationDefensive ==
    Returned("check_weather_irrigation_recommendation") =>
        /\ call.out # None
        /\ call.out # Raised
        /\ call.out.category = "irrigation"
        /\ call.out.severity \in {"low", "medium", "high"}
        /\ call.arg.unexpected =>
             /\ call.out.title = "Weather Data Unavailable"
             /\ call.out.severity = "medium"

C10_Witness ==
    /\ Returned("check_weather_irrigation_recommendation")
    /\ call.arg.unexpected
    /\ ~call.arg.wx.ok /\ ~call.arg.fc.ok /\ ~call.arg.soil.ok
    /\ call.out.title = "Weather Data Unavailable"

-----------------------------------------------------------------------------
(* Properties of the crop filter, checked under SpecFn                      *)

\* The soil reading the dashboard call works on.
SoilOfCall == get_soil_data(call.arg.soil)

\* The catalog of the call as the process holds it, and its rows as the
\* filter compares them.
LoadedOfCall == LoadCatalog(call.arg.catalog)
RowOfCall(i) == CoerceRow(LoadedOfCall.rows[i])

\* The bucket the breakpoints give a moisture percentage (in tenths).
BucketOf(v) ==
    CASE v >= 900 -> "flooded"
      [] v > 700 /\ v < 900 -> "high"
      [] v >= 400 /\ v <= 700 -> "medium"
      [] v < 400 -> "low"

\* The tokens of a Soil Moisture cell, as a set.
TokensOf(cell) ==
    LET toks == tokenize_categories(cell.text) IN {toks[i] : i \in 1..Len(toks)}

\* Row i of the call's catalog satisfies every predicate whose column exists.
Satisfies(i) ==
    LET row == RowOfCall(i)
        cols == call.arg.catalog.columns
        soil == SoilOfCall
        sel == Strip(call.arg.form)
        InBand(lo, hi, x) ==
            /\ lo \in cols => (~row[lo].nan /\ row[lo].v <= x)
            /\ hi \in cols => (~row[hi].nan /\ x <= row[hi].v)
    IN  /\ InBand("Min Temp", "Max temp", soil.temperature)
        /\ InBand("Min Humidity", "Max Humidity", soil.humidity)
        /\ "Soil Moisture" \in cols =>
              <<BucketOf(soil.moisture)>> \in TokensOf(row["Soil Moisture"])
        /\ (sel # <<>> /\ "Soil Type" \in cols) =>
              Norm(row["Soil Type"].text) = Norm(sel)

RECURSIVE Ascending(_)
Ascending(S) ==
    IF S = {} THEN <<>>
    ELSE LET m == CHOOSE x \in S : \A y \in S : x <= y
         IN  <<m>> \o Ascending(S \ {m})

\* The filter ran on a soil reading and did not fail internally.
Filtered ==
    /\ Returned("dashboard")
    /\ SoilOfCall.present
    /\ ~call.arg.unexpected

\* The first row drawn: Min Temp 10, Max temp 30, Soil Moisture low/medium.
ExampleRow ==
    CsvRow(Text(<<"Maize">>), Text(<<"Loam">>), Text(<<"low", "/", "medium">>),
           Number(100), Number(300))

C16_NoLiveDataSignal ==
    Returned("dashboard") =>
        /\ call.out.no_live_data <=> ~SoilOfCall.present
        /\ ~SoilOfCall.present => call.out.crops = <<>>

\* The filter failed internally on a present soil reading: nothing is
\* recommended and the signal is not raised.
C16_Witness ==
    /\ Returned("dashboard")
    /\ SoilOfCall.present
    /\ call.arg.unexpected
    /\ call.arg.catalog.rows = <<ExampleRow>>
    /\ call.out.crops = <<>>
    /\ ~call.out.no_live_data

\* The Crop cell of a catalog row is missing or blank.
Unnamed(row) == row["Crop"].missing \/ Strip(row["Crop"].text) = <<>>

\* C17: every row the crop filter returns has a non-empty crop name: a
\* catalog row whose Crop cell is missing or blank is never among the rows
\* returned, whatever the soil values.
C17_NamedRows ==
    (Returned("dashboard") /\ "Crop" \in call.arg.catalog.columns) =>
        \A k \in 1..Len(call.out.crops) :
            \E i \in 1..Len(call.arg.catalog.rows) :
                /\ ~Unnamed(call.arg.catalog.rows[i])
                /\ call.out.crops[k] = RowOfCall(i)

\* A row with a blank Crop cell is returned, under the empty name.
C17_BlankReturned ==
    /\ Returned("dashboard")
    /\ Len(call.arg.catalog.rows) = 1
    /\ call.arg.catalog.rows[1]["Crop"] = Text(<<" ", " ">>)
    /\ Len(call.out.crops) = 1
    /\ call.out.crops[1]["Crop"] = Text(<<>>)
    /\ call.out.recommended_crops = <<>>

\* A row with a missing Crop cell is returned, under the name "nan".
C17_MissingReturned ==
    /\ Returned("dashboard")
    /\ Len(call.arg.catalog.rows) = 1
    /\ call.arg.catalog.rows[1]["Crop"] = Missing
    /\ call.out.crops = <<RowOfCall(1)>>
    /\ call.out.recommended_crops = << <<"nan">> >>

\* C18: the moisture bucket is a total function of the soil moisture
\* percentage with fixed breakpoints: v >= 90 flooded, 70 < v < 90 high,
\* 40 <= v <= 70 medium, v < 40 low; "unknown" is produced only when soil is
\* absent, never for a present reading.
C18_MoistureBucket ==
    Returned("dashboard") =>
        /\ SoilOfCall.present =>
              /\ call.out.soil_category = Capitalize[BucketOf(SoilOfCall.moisture)]
              /\ moisture_bucket_from_pct(Val(SoilOfCall.moisture))
                    = BucketOf(SoilOfCall.moisture)
        /\ call.out.soil_category = "Unknown" <=> ~SoilOfCall.present

\* A reading of exactly 70 is medium.
C18_Witness ==
    /\ Returned("dashboard")
    /\ SoilOfCall.present
    /\ SoilOfCall.moisture = 700
    /\ call.out.soil_category = "Medium"

-----------------------------------------------------------------------------
(* The order of severities along the decision lists, checked under SpecFn   *)

Rank == [sev \in {"low", "medium", "high"} |->
            CASE sev = "high" -> 3 [] sev = "medium" -> 2 [] sev = "low" -> 1]

\* The place of each branch in its decision list, by the title of its alert:
\* check_rain_alert app.py:308-372, check_water_tank_alert app.py:414-436,
\* check_weather_irrigation_recommendation app.py:454-517.
RainBranch ==
    [title \in {"Heavy Rain Alert", "Rain Expected Today", "Uncertain Weather",
                "No Rain, Irrigation Needed", "Good Weather Day"} |->
        CASE title = "Heavy Rain Alert" -> 1
          [] title = "Rain Expected Today" -> 2
          [] title = "Uncertain Weather" -> 3
          [] title = "No Rain, Irrigation Needed" -> 4
          [] title = "Good Weather Day" -> 5]

TankBranch ==
    [title \in {"Water Tank Full", "Water Tank Low", "Water Tank Getting Low",
                "Water Tank Status Update"} |->
        CASE title = "Water Tank Full" -> 1
          [] title = "Water Tank Low" -> 2
          [] title = "Water Tank Getting Low" -> 3
          [] title = "Water Tank Status Update" -> 4]

IrrigationBranch ==
    [title \in {"Heavy Rain Alert - No Irrigation", "Medium Rain - Limited Irrigation",
                "Normal Weather - Sensor Offline", "Perfect Irrigation Day",
                "Normal Weather - Regular Irrigation"} |->
        CASE title = "Heavy Rain Alert - No Irrigation" -> 1
          [] title = "Medium Rain - Limited Irrigation" -> 2
          [] title = "Normal Weather - Sensor Offline" -> 3
          [] title = "Perfect Irrigation Day" -> 4
          [] title = "Normal Weather - Regular Irrigation" -> 5]

\* The branch and the severity rank of each alert of a set.
Placed(alerts, branch) == {<<branch[a.title], Rank[a.severity]>> : a \in alerts}

\* What each tree returns over the inputs drawn, its branches' places and
\* severities.
RainPlaces ==
    Placed({check_rain_alert(f, w, so, 0) :
                f \in ForecastResponses, w \in WeatherSample, so \in SoilSample}
             \ {None}, RainBranch)

TankPlaces ==
    Placed({check_water_tank_alert(r, 0) : r \in TankResponses} \ {None}, TankBranch)

IrrigationPlaces ==
    Placed({IrrigationDecision(w, so, f, 0) :
                w \in WeatherSample, so \in SoilSample, f \in ForecastResponses},
           IrrigationBranch)

\* No branch placed before place b has a lower severity than rank r.
NotAboveEarlier(places, b, r) == \A e \in places : e[1] < b => e[2] >= r

\* The call returned an alert of a branch of the decision list of fn.
Decided(fn) ==
    /\ Returned(fn)
    /\ call.out # None
    /\ call.out.title # "Weather Data Unavailable"

\* C20 as stated: in each of the three rule trees the severity is
\* non-increasing along the decision list: the alert of a branch placed
\* later never has a higher severity than the alert of a branch placed
\* earlier.
C20_SeverityNonIncreasing ==
    /\ Decided("check_rain_alert") =>
          NotAboveEarlier(RainPlaces, RainBranch[call.out.title], Rank[call.out.severity])
    /\ Decided("check_water_tank_alert") =>
          NotAboveEarlier(TankPlaces, TankBranch[call.out.title], Rank[call.out.severity])
    /\ Decided("check_weather_irrigation_recommendation") =>
          NotAboveEarlier(IrrigationPlaces, IrrigationBranch[call.out.title],
                          Rank[call.out.severity])

\* C20 (amended): the severity is non-increasing along the decision lists of
\* the tank tree and of the irrigation tree, and along the rain tree with
\* one exception: its no-rain branch for dry soil, "No Rain, Irrigation
\* Needed", is of medium severity although it is placed after the
\* low-severity "Uncertain Weather" branch.
C20_SeverityOrder ==
    /\ Decided("check_rain_alert") =>
          IF call.out.title = "No Rain, Irrigation Needed"
          THEN /\ call.out.severity = "medium"
               /\ <<3, Rank["low"]>> \in RainPlaces
          ELSE NotAboveEarlier({e \in RainPlaces : e[1] # 4},
                               RainBranch[call.out.title], Rank[call.out.severity])
    /\ Decided("check_water_tank_alert") =>
          NotAboveEarlier(TankPlaces, TankBranch[call.out.title], Rank[call.out.severity])
    /\ Decided("check_weather_irrigation_recommendation") =>
          NotAboveEarlier(IrrigationPlaces, IrrigationBranch[call.out.title],
                          Rank[call.out.severity])

\* The rain tree returned its medium-severity irrigation-needed alert, the
\* branch placed after the low-severity one.
C20_Witness ==
    /\ Decided("check_rain_alert")
    /\ call.out.title = "No Rain, Irrigation Needed"
    /\ call.out.severity = "medium"
    /\ RainBranch[call.out.title] = 4
    /\ <<3, 1>> \in RainPlaces
    /\ Cardinality(RainPlaces) = 5 /\ Cardinality(TankPlaces) = 4
    /\ Cardinality(IrrigationPlaces) = 5

-----------------------------------------------------------------------------
(* Properties of the alert sink and the entry points, checked under Spec    *)

\* The alerts add_alert has appended and not yet saved.
PendingAlerts == {frame[t].pending.alert : t \in {u \in Threads : frame[u].pending # None}}

\* The feed entries whose add_alert call has returned.
Recorded == SelectSeq(FARMER_ALERTS, LAMBDA a : a \notin PendingAlerts)

\* The owner add_alert is given for an alert: the user of the session for a
\* crop alert (app.py:1070), none elsewhere.
Owner(alert) == IF "crop_id" \in DOMAIN alert THEN User ELSE "NULL"

RowOf(alert) == Row(alert, Owner(alert))

Rows(alerts) == [i \in 1..Len(alerts) |-> RowOf(alerts[i])]

Range(f) == {f[i] : i \in DOMAIN f}

C11_State ==
    /\ PendingAlerts \subseteq Range(FARMER_ALERTS)
    /\ Len(alert_history) = Len(Recorded)
    /\ Range(alert_history) = Range(Rows(Recorded))
    /\ Cardinality(Range(alert_history)) = Len(alert_history)

\* One step of the system: a stage that calls add_alert with an alert appends
\* that one entry and no row, the save appends that one row and no entry,
\* and a stage whose alert is empty changes neither.
C11_Step ==
    /\ \A t \in Threads :
          /\ (frame[t].pending = None /\ frame'[t].pending # None) =>
                /\ FARMER_ALERTS' = Append(FARMER_ALERTS, frame'[t].pending.alert)
                /\ alert_history' = alert_history
          /\ (frame[t].pending # None /\ frame'[t].pending = None) =>
                /\ alert_history' = Append(alert_history, RowOf(frame[t].pending.alert))
                /\ FARMER_ALERTS' = FARMER_ALERTS
    /\ (\A t \in Threads : frame'[t].pending = frame[t].pending) =>
          /\ FARMER_ALERTS' = FARMER_ALERTS
          /\ alert_history' = alert_history

SameButTimestamp(a, b) ==
    IF a = None \/ b = None THEN a = b ELSE Untimed(a) = Untimed(b)

\* Each rule tree, run at two times against the same answers of the
\* collaborators, builds alerts that differ only in the timestamp.
TreesRepeat ==
    \A ts1 \in 0..MaxFeed, ts2 \in 0..MaxFeed :
        /\ \A fc \in SysForecast, wx \in SysWeather, soil \in SysSoil :
              /\ SameButTimestamp(check_rain_alert(fc, wx, soil, ts1),
                                  check_rain_alert(fc, wx, soil, ts2))
              /\ \A x \in BOOLEAN :
                    SameButTimestamp(
                        check_weather_irrigation_recommendation(wx, soil, fc, x, ts1),
                        check_weather_irrigation_recommendation(wx, soil, fc, x, ts2))
        /\ \A tk \in SysTank :
              SameButTimestamp(check_water_tank_alert(tk, ts1),
                               check_water_tank_alert(tk, ts2))

\* C12: there is no deduplication or rate limiting.  A rule tree run twice
\* against identical inputs builds two alerts equal in every field except
\* the timestamp, and every alert a stage of an evaluation builds is
\* appended to the feed whatever the feed already holds: the evaluation has
\* appended as many entries as it built alerts, each at a position of its
\* own.
C12_NoDedup ==
    /\ TreesRepeat
    /\ \A t \in Threads :
          /\ Len(frame[t].created) = frame[t].built
          /\ \A i \in 1..Len(frame[t].created) :
                /\ frame[t].created[i] \in 1..Len(FARMER_ALERTS)
                /\ \A j \in 1..Len(frame[t].created) :
                      i < j => frame[t].created[i] < frame[t].created[j]

\* The scheduled tank check ran twice against the same tank reading: the
\* second alert was appended although the feed held an alert equal to it in
\* every field except the timestamp.
C12_Witness ==
    /\ Len(FARMER_ALERTS) = 2
    /\ Untimed(FARMER_ALERTS[1]) = Untimed(FARMER_ALERTS[2])
    /\ FARMER_ALERTS[1].timestamp # FARMER_ALERTS[2].timestamp
    /\ FARMER_ALERTS[2].title = "Water Tank Low"
    /\ frame["scheduler"].op = "generate_water_tank_alert"
    /\ frame["scheduler"].built = 1
    /\ frame["scheduler"].created = <<2>>

IsPrefix(s, t) == Len(s) <= Len(t) /\ SubSeq(t, 1, Len(s)) = s

\* The alert a thread has appended and not yet saved is in the feed, at the
\* position the thread appended it to.
PendingInFeed ==
    \A t \in Threads :
        frame[t].pending # None =>
            /\ frame[t].created # <<>>
            /\ FARMER_ALERTS[frame[t].created[Len(frame[t].created)]] = frame[t].pending.alert

\* C13: under every interleaving of the scheduler thread with the request
\* handlers the feed is append-only: every step leaves the feed a prefix of
\* what it becomes, so no entry is changed, removed or reordered, and an
\* alert one thread has appended is not lost to an append of the other.
C13_AppendOnly ==
    /\ [][IsPrefix(FARMER_ALERTS, FARMER_ALERTS')]_vars
    /\ []PendingInFeed

\* Both threads are inside add_alert at once and each alert is in the feed.
C13_Witness ==
    /\ frame["scheduler"].pending # None
    /\ frame["request"].pending # None
    /\ frame["scheduler"].pending.alert # frame["request"].pending.alert
    /\ PendingAlerts = Range(FARMER_ALERTS)
    /\ PendingInFeed

\* The evaluation entry points.
Evaluations == {"generate_daily_weather_alert", "generate_water_tank_alert", "api_run_alerts"}

\* The thread is inside an evaluation: a stage or a save is still to run.
InEvaluation(t) ==
    /\ frame[t].op \in Evaluations
    /\ frame[t].pc \notin {"idle", "end", "raised"} \/ frame[t].pending # None

\* The next step of the evaluation the thread is in.
EvaluationStep(t) ==
    \/ save_alert_to_db(t)
    \/ daily_tank(t)
    \/ run_rain(t)
    \/ run_tank(t)
    \/ run_irrigation(t)

\* The evaluation of the thread returned, the session check aside.
Completed(t, op) ==
    /\ frame[t].op = op
    /\ frame[t].pc = "end"
    /\ frame[t].response # "401 Unauthorized"

CreatedBy(t) == [i \in 1..Len(frame[t].created) |-> FARMER_ALERTS[frame[t].created[i]]]

\* C19: a single evaluation emits at most one alert per domain: among the
\* alerts one run of /api/run_alerts or of generate_daily_weather_alert
\* appended to the feed no two have the same category.
C19_OnePerCategory ==
    \A t \in Threads :
        frame[t].op \in {"api_run_alerts", "generate_daily_weather_alert"} =>
            \A i \in 1..Len(CreatedBy(t)), j \in 1..Len(CreatedBy(t)) :
                i # j => CreatedBy(t)[i].category # CreatedBy(t)[j].category

\* One run of /api/run_alerts appended two alerts of category irrigation:
\* the rain tree's "No Rain, Irrigation Needed" and the alert of the
\* irrigation tree.
C19_Witness ==
    /\ frame["request"].op = "api_run_alerts"
    /\ Len(CreatedBy("request")) = 2
    /\ CreatedBy("request")[1].title = "No Rain, Irrigation Needed"
    /\ CreatedBy("request")[1].category = "irrigation"
    /\ CreatedBy("request")[2].category = "irrigation"

\* The daily check appends the alert of its weather step and a tank alert,
\* of categories that differ.
C19_DailyOnePerCategory ==
    \A i \in 1..Len(CreatedBy("scheduler")), j \in 1..Len(CreatedBy("scheduler")) :
        i # j => CreatedBy("scheduler")[i].category # CreatedBy("scheduler")[j].category

-----------------------------------------------------------------------------
(* The snapshot of one evaluation and the session check, checked under Spec *)

\* The request thread has run the rain tree and the irrigation tree of one
\* /api/run_alerts evaluation.
RanBothTrees ==
    /\ frame["request"].op = "api_run_alerts"
    /\ frame["request"].rain_read # Unread
    /\ frame["request"].irrigation_read # Unread

\* What the rain tree read is what the irrigation tree read.
SameRead(key) ==
    frame["request"].rain_read[key] # Unread =>
        frame["request"].rain_read[key] = frame["request"].irrigation_read[key]

\* C21 as stated: within one /api/run_alerts evaluation all trees consume the
\* same snapshot: the weather, forecast and soil values the rain tree used
\* are the values the irrigation tree used, whatever the weather provider
\* and the sensor device do while the evaluation runs.
C21_OneSnapshot ==
    RanBothTrees => SameRead("forecast") /\ SameRead("weather") /\ SameRead("soil")

\* One evaluation in which the rain tree read a soil moisture below 40 and
\* the irrigation tree found the sensor offline: the feed holds both alerts.
C21_TwoSnapshots ==
    /\ RanBothTrees
    /\ frame["request"].rain_read.soil # Unread
    /\ frame["request"].rain_read.soil.present
    /\ ~frame["request"].irrigation_read.soil.present
    /\ frame["request"].rain_read.forecast = frame["request"].irrigation_read.forecast
    /\ \E i, j \in 1..Len(FARMER_ALERTS) :
          /\ <<i, j>> = frame["request"].created
          /\ FARMER_ALERTS[i].title = "No Rain, Irrigation Needed"
          /\ FARMER_ALERTS[j].title = "Normal Weather - Sensor Offline"

\* The entry points behind the alert-producing endpoints.
AlertEndpoints ==
    {"api_run_alerts", "manual_weather_alert", "manual_water_tank_alert",
     "manual_weather_irrigation_recommendation", "add_crop_to_irrigation"}

Unauthorized == frame["request"].response = "401 Unauthorized"

\* A request answered Unauthorized has ended without building, appending or
\* saving an alert, and every request in progress or served is at one of the
\* alert-producing endpoints.
C22_State ==
    /\ frame["request"].op \in AlertEndpoints \cup {"idle"}
    /\ Unauthorized =>
          /\ frame["request"].pc = "end"
          /\ frame["request"].built = 0
          /\ frame["request"].created = <<>>
          /\ frame["request"].pending = None
          /\ ~ENABLED save_alert_to_db("request")
          /\ \A op \in AlertEndpoints, pc \in {"rain", "tank", "irrigation", "insert"} :
                ~At("request", op, pc)

\* A step that starts a request while the session holds no username answers
\* Unauthorized and leaves the feed and the history as they were; and no
\* step of the request thread builds, appends or saves an alert for a request
\* that was answered Unauthorized.
C22_Step ==
    /\ ( /\ "username" \notin session
         /\ CanStart("request")
         /\ frame'["request"] # frame["request"] )
       => /\ frame'["request"].response = "401 Unauthorized"
          /\ frame'["request"].pc = "end"
          /\ FARMER_ALERTS' = FARMER_ALERTS
          /\ alert_history' = alert_history
    /\ ( /\ Unauthorized
         /\ frame'["request"].op = frame["request"].op
         /\ frame'["request"].response = "401 Unauthorized" )
       => frame'["request"] = frame["request"]

\* C22: after any sequence of login, logout and API requests, a request made
\* while no user is logged in to any alert-producing endpoint is answered
\* Unauthorized and leaves the in-memory feed and the durable alert history
\* unchanged.
C22_UnauthorizedNoEffect == []C22_State /\ [][C22_Step]_vars

\* After a login that let a request record an alert, and a logout that left
\* the other keys in the session, a request was answered Unauthorized.
C22_Witness ==
    /\ Unauthorized
    /\ "username" \notin session
    /\ "userid" \in session
    /\ Len(FARMER_ALERTS) >= 1
    /\ Len(alert_history) = Len(FARMER_ALERTS)

=============================================================================
